---------------------------- MODULE Spec2Model ----------------------------
(***************************************************************************)
(* A model of instrument.py: the three note generators (Beep,             *)
(* AcousticGuitar, Trumpet) and Instrument.duplicateChannel.              *)
(*                                                                         *)
(* Numbers.  A Python float is modelled as a fixed-point number: the      *)
(* integer x stands for x / Scale, and every floating-point operation is  *)
(* the exact operation followed by rounding to the nearest grid point.    *)
(* A numpy float32 is the same number rounded to a coarser grid (one      *)
(* point every SingleStep units).  The time axis of np.linspace is kept   *)
(* as an exact fraction <<numerator, denominator>> of a second.           *)
(* Sequences are 1-based: samples[k] is the code's samples[k - 1].        *)
(***************************************************************************)
EXTENDS Integers, Sequences, FiniteSets, TLC

VARIABLES
    pc,             \* "idle", "string" (inside the Karplus-Strong loop),
                    \* "returned", "raised", "packaged"
    instrument,     \* the class whose getNote is running
    frequency,      \* getNote's arguments
    duration,
    sampleRate,
    noise,          \* what np.random.standard_normal returned to this call
    buffer,         \* AcousticGuitar: the ring buffer
    last,           \* AcousticGuitar: the previous output sample
    delayLine,      \* AcousticGuitar: the queue.Queue(maxsize = 200)
    bufferCounter,  \* AcousticGuitar: the ring cursor
    i,              \* AcousticGuitar: the loop index (ticks done so far)
    delayed,        \* AcousticGuitar: the local `delayed`, <<>> while unassigned
    time,           \* Beep, Trumpet: np.linspace(0, seconds, duration)
    filtered,       \* Trumpet: newSamples after the high-pass loop
    adsr,           \* Trumpet: the ADSR curve, <<>> while unassigned
    samples,        \* the signal being built, and getNote's return value
    stereo,         \* duplicateChannel's return value
    previous        \* the call before this one: its arguments and outcome

vars == <<pc, instrument, frequency, duration, sampleRate, noise, buffer, last,
          delayLine, bufferCounter, i, delayed, time, filtered, adsr, samples,
          stereo, previous>>

-----------------------------------------------------------------------------
(* Bounds of the model. *)

MaxFrequency == 3
MaxSampleRate == 28
MaxDuration == 17
\* The ring buffers explored have at most this many cells.
MaxRing == 3
\* The long plucked notes run this many ticks past the delay line's capacity.
MaxOver == 2

-----------------------------------------------------------------------------
(* Floating-point arithmetic. *)

\* One unit of a float is 1 / Scale.
Scale == 10^3

\* a / b rounded to the nearest integer (b > 0), halves upwards.
RDiv(a, b) == (2 * a + b) \div (2 * b)

\* x * y of two floats.
Mul(x, y) == RDiv(x * y, Scale)

\* x / 2 of a float.
Half(x) == RDiv(x, 2)

\* x / y of two floats (y > 0).
Quot(x, y) == RDiv(x * Scale, y)

\* The float of the integer n, and of n thousandths (a literal such as 0.999).
Float(n) == n * Scale
Milli(n) == RDiv(n * Scale, 1000)

\* np.pi
Pi == Quot(Float(355), Float(113))

\* np.sin(2 * np.pi * n / d) for a phase of n / d turns (n >= 0, d > 0), by
\* Bhaskara's rational approximation 32 q / (5 - 8 q), q = p (1 - 2 p), on the
\* half turn 0 <= p <= 1/2, negated on the other half.  With D = 2 d the
\* phase is R / D, a half turn is d / D, and q = u (D - 2 u) / D^2.
Sin(n, d) ==
    LET D == 2 * d
        R == 2 * (n % d)
        u == IF R <= d THEN R ELSE R - d
        q == RDiv(u * (D - 2 * u) * Scale, D * D)
        mag == RDiv(32 * q * Scale, 5 * Scale - 8 * q)
    IN  IF R <= d THEN mag ELSE -mag

\* np.linspace(0, duration / sampleRate, duration): `num` points from 0 to
\* `stop` inclusive, point j (1-based) at (j - 1) * stop / (num - 1).
TimeAxis(d, sr) ==
    [j \in 1..d |-> IF d = 1 THEN <<0, 1>> ELSE <<(j - 1) * d, sr * (d - 1)>>]

\* np.linspace(a, b, n) over floats.
Linspace(a, b, n) ==
    [j \in 1..n |-> IF n = 1 THEN a ELSE a + RDiv((j - 1) * (b - a), n - 1)]

\* np.full(n, v)
Full(n, v) == [j \in 1..n |-> v]

-----------------------------------------------------------------------------
(* Instrument.duplicateChannel *)

\* The float32 grid: one point every SingleStep units of a float.
SingleStep == 2^3

\* A conversion that cuts the extra digits off instead of rounding.
Float32Truncated(x) == (x \div SingleStep) * SingleStep

\* np.float32(x): the nearest float32.
Float32(x) == RDiv(x, SingleStep) * SingleStep

\* One frame of duplicateChannel.
Frame(sample) ==
    LET sample32 == Float32(Half(sample)) IN <<sample32, sample32>>

DuplicateChannelOf(channel) == [k \in 1..Len(channel) |-> Frame(channel[k])]

-----------------------------------------------------------------------------
(* Beep.getNote *)

BeepSamples(f, t) == [k \in 1..Len(t) |-> Sin(f * t[k][1], t[k][2])]

-----------------------------------------------------------------------------
(* AcousticGuitar.getBaseStringSound *)

\* queue.Queue(maxsize = 200)
DelayCapacity == 200

\* round(sampleRate / frequency) in place of int(...).
RingSizeNearest(sr, f) == (2 * sr + f) \div (2 * f)

\* int(sampleRate / frequency): the quotient truncated.
RingSize(sr, f) == sr \div f

\* The values a standard-normal draw may take in the model.
NoiseValues == {Milli(-1200), Milli(700)}

\* np.random.standard_normal(n): any n draws.
StandardNormal(n) == [1..n -> NoiseValues]

\* A delay line kept from one call to the next (a queue made once, outside
\* the method).
StaleDelayLine == delayLine

\* The delay line as the call creates it.
FreshDelayLine == << >>

\* A queue one cell too small.
DelayFullEarly(q) == Len(q) >= DelayCapacity - 1

\* delayLine.full()
DelayFull(q) == Len(q) >= DelayCapacity

\* (last + buffer[bufferCounter]) / 2
LowPass(l, b) == Half(l + b)

\* delayed *= 0.999
Decay(x) == Mul(x, Milli(999))

\* current += delayed; current /= 2
Feedback(current, d) == Half(current + d)

\* The wrap test written with > for >=.
AdvanceCursorLate(c, n) == IF c + 1 > n THEN 0 ELSE c + 1

\* bufferCounter += 1; if bufferCounter >= len(buffer): bufferCounter = 0
AdvanceCursor(c, n) == IF c + 1 >= n THEN 0 ELSE c + 1

-----------------------------------------------------------------------------
(* Trumpet.getNote *)

\* The relative amplitudes of the 19 partials (the list `envelope`).
Envelope ==
    <<Milli(3600), Milli(2825), Milli(3000), Milli(2688), Milli(1464),
      Milli(1520), Milli(1122), Milli(940), Milli(738), Milli(495), Milli(362),
      Milli(237), Milli(154), Milli(154), Milli(101), Milli(82), Milli(54),
      Milli(38), Milli(36)>>

\* samples += amplitude * np.sin(frequency * (i + 1) * 2 * np.pi * time), over
\* the partials k..19, at the time t = <<numerator, denominator>>.
RECURSIVE Partials(_, _, _)
Partials(f, t, k) ==
    IF k > Len(Envelope) THEN 0
    ELSE Mul(Envelope[k], Sin(f * k * t[1], t[2])) + Partials(f, t, k + 1)

AdditiveSynthesis(f, t) == [j \in 1..Len(t) |-> Partials(f, t[j], 1)]

\* alpha = RC / (RC + 1.0 / sampleRate), RC = 1 / (np.pi * frequency * 32)
Alpha(f, sr) ==
    LET RC == Quot(Float(1), Pi * f * 32)
    IN  Quot(RC, RC + Quot(Float(1), Float(sr)))

\* The high-pass loop, continued from the samples `acc` already filtered.
RECURSIVE HighPassFrom(_, _, _)
HighPassFrom(x, alpha, acc) ==
    IF Len(acc) >= Len(x) THEN acc
    ELSE LET j == Len(acc) + 1
         IN  HighPassFrom(x, alpha,
                          Append(acc, Mul(alpha, acc[j - 1] + x[j] - x[j - 1])))

\* newSamples[0] = samples[0], then the loop (x is not empty).
HighPass(x, alpha) == HighPassFrom(x, alpha, <<x[1]>>)

\* int(0.075 * sampleRate), int(0.3 * sampleRate), int(0.2 * sampleRate)
AttackLength(sr) == (75 * sr) \div 1000
DecayLength(sr) == (3 * sr) \div 10
ReleaseLength(sr) == (2 * sr) \div 10

SustainLength(d, sr) ==
    d - AttackLength(sr) - DecayLength(sr) - ReleaseLength(sr)

\* peak = 0.1; sustain = peak * 0.8
Peak == Milli(100)
Sustain == Mul(Peak, Milli(800))

\* The pieces appended with the plateau before the decay.
AdsrSustainFirst(a, d, s, r) ==
    Linspace(0, Peak, a) \o Full(s, Sustain)
        \o Linspace(Peak, Sustain, d) \o Linspace(Sustain, 0, r)

\* The four np.linspace / np.full pieces, appended in order.
Adsr(a, d, s, r) ==
    Linspace(0, Peak, a) \o Linspace(Peak, Sustain, d)
        \o Full(s, Sustain) \o Linspace(Sustain, 0, r)

\* samples *= adsr
Scaled(x, e) == [j \in 1..Len(x) |-> Mul(x[j], e[j])]

-----------------------------------------------------------------------------
NoCall == [instrument |-> "none"]

Init ==
    /\ pc = "idle"
    /\ instrument = "none"
    /\ frequency = 1
    /\ duration = 0
    /\ sampleRate = 1
    /\ noise = << >>
    /\ buffer = << >>
    /\ last = 0
    /\ delayLine = << >>
    /\ bufferCounter = 0
    /\ i = 0
    /\ delayed = << >>
    /\ time = << >>
    /\ filtered = << >>
    /\ adsr = << >>
    /\ samples = << >>
    /\ stereo = << >>
    /\ previous = NoCall

BeepGetNote(f, d, sr) ==
    /\ pc = "idle"
    /\ instrument' = "Beep"
    /\ frequency' = f
    /\ duration' = d
    /\ sampleRate' = sr
    /\ time' = TimeAxis(d, sr)
    /\ samples' = BeepSamples(f, time')
    /\ pc' = "returned"
    /\ UNCHANGED <<noise, buffer, last, delayLine, bufferCounter, i, delayed,
                   filtered, adsr, stereo, previous>>

\* Line 85 builds the ring buffer, line 86 reads buffer[0]: an IndexError when
\* the buffer is empty.
GuitarStart(f, d, sr, z) ==
    /\ pc = "idle"
    /\ instrument' = "AcousticGuitar"
    /\ frequency' = f
    /\ duration' = d
    /\ sampleRate' = sr
    /\ noise' = z
    /\ samples' = << >>
    /\ buffer' = z
    /\ IF Len(z) = 0
       THEN /\ pc' = "raised"
            /\ UNCHANGED <<last, delayLine, bufferCounter, i, delayed>>
       ELSE /\ pc' = "string"
            /\ last' = z[1]
            /\ delayLine' = FreshDelayLine
            /\ bufferCounter' = 0
            /\ i' = 0
            /\ delayed' = << >>
    /\ UNCHANGED <<time, filtered, adsr, stereo, previous>>

\* One iteration of the loop of lines 90-107.
GuitarTick ==
    /\ pc = "string"
    /\ i < duration
    /\ LET low == LowPass(last, buffer[bufferCounter + 1])
           full == DelayFull(delayLine)
           echo == Decay(Head(delayLine))
           current == IF full THEN Feedback(low, echo) ELSE low
           rest == IF full THEN Tail(delayLine) ELSE delayLine
       IN  /\ delayed' = IF full THEN <<echo>> ELSE delayed
           /\ samples' = Append(samples, current)
           /\ delayLine' = Append(rest, current)
           /\ last' = current
           /\ buffer' = [buffer EXCEPT ![bufferCounter + 1] = current]
    /\ bufferCounter' = AdvanceCursor(bufferCounter, Len(buffer))
    /\ i' = i + 1
    /\ UNCHANGED <<pc, instrument, frequency, duration, sampleRate, noise, time,
                   filtered, adsr, stereo, previous>>

\* The loop is over: return samples.
GuitarReturn ==
    /\ pc = "string"
    /\ i >= duration
    /\ pc' = "returned"
    /\ UNCHANGED <<instrument, frequency, duration, sampleRate, noise, buffer,
                   last, delayLine, bufferCounter, i, delayed, time, filtered,
                   adsr, samples, stereo, previous>>

\* Line 160 reads samples[0] and writes newSamples[0]: an IndexError when the
\* duration is 0.
TrumpetGetNote(f, d, sr) ==
    /\ pc = "idle"
    /\ instrument' = "Trumpet"
    /\ frequency' = f
    /\ duration' = d
    /\ sampleRate' = sr
    /\ time' = TimeAxis(d, sr)
    /\ IF d = 0
       THEN /\ pc' = "raised"
            /\ filtered' = << >>
            /\ samples' = << >>
            /\ UNCHANGED adsr
       ELSE /\ pc' = "returned"
            /\ filtered' = HighPass(AdditiveSynthesis(f, time'), Alpha(f, sr))
            /\ IF SustainLength(d, sr) >= 0
               THEN /\ adsr' = Adsr(AttackLength(sr), DecayLength(sr),
                                    SustainLength(d, sr), ReleaseLength(sr))
                    /\ samples' = Scaled(filtered', adsr')
               ELSE /\ adsr' = << >>
                    /\ samples' = filtered'
    /\ UNCHANGED <<noise, buffer, last, delayLine, bufferCounter, i, delayed,
                   stereo, previous>>

\* matchNotes hands getNote's samples to duplicateChannel.
DuplicateChannel ==
    /\ pc = "returned"
    /\ stereo' = DuplicateChannelOf(samples)
    /\ pc' = "packaged"
    /\ UNCHANGED <<instrument, frequency, duration, sampleRate, noise, buffer,
                   last, delayLine, bufferCounter, i, delayed, time, filtered,
                   adsr, samples, previous>>

\* The caller goes on to its next getNote; what the finished call left in
\* memory stays there until something overwrites it.
NextCall ==
    /\ pc \in {"returned", "raised"}
    /\ previous = NoCall
    /\ previous' = [instrument |-> instrument, frequency |-> frequency,
                    duration |-> duration, sampleRate |-> sampleRate,
                    noise |-> noise, outcome |-> pc, samples |-> samples]
    /\ pc' = "idle"
    /\ UNCHANGED <<instrument, frequency, duration, sampleRate, noise, buffer,
                   last, delayLine, bufferCounter, i, delayed, time, filtered,
                   adsr, samples, stereo>>

Frequencies == 1..MaxFrequency
SampleRates == 1..MaxSampleRate
Durations == 0..MaxDuration
LongDurations == {DelayCapacity - 1, DelayCapacity + MaxOver}

\* A caller picks an instrument and calls its getNote.
BeepCall ==
    /\ pc = "idle"
    /\ \E f \in Frequencies, d \in Durations, sr \in SampleRates :
          BeepGetNote(f, d, sr)

TrumpetCall ==
    /\ pc = "idle"
    /\ \E f \in Frequencies, d \in Durations, sr \in SampleRates :
          TrumpetGetNote(f, d, sr)

GuitarCall ==
    /\ pc = "idle"
    /\ \E f \in Frequencies, d \in Durations \cup LongDurations,
          sr \in SampleRates :
          /\ RingSize(sr, f) <= MaxRing
          /\ \E z \in StandardNormal(RingSize(sr, f)) :
                GuitarStart(f, d, sr, z)

Next ==
    \/ BeepCall
    \/ TrumpetCall
    \/ GuitarCall
    \/ GuitarTick
    \/ GuitarReturn
    \/ DuplicateChannel

Spec == Init /\ [][Next]_vars

-----------------------------------------------------------------------------
(* Two calls in a row, on a smaller set of requests. *)

RepeatFrequencies == {1, 3}
RepeatSampleRates == {2}
RepeatDurations == {0, 2}
RepeatLongDurations == {DelayCapacity + 1}

BeepCallAgain ==
    /\ pc = "idle"
    /\ \E f \in RepeatFrequencies, d \in RepeatDurations,
          sr \in RepeatSampleRates :
          BeepGetNote(f, d, sr)

TrumpetCallAgain ==
    /\ pc = "idle"
    /\ \E f \in RepeatFrequencies, d \in RepeatDurations,
          sr \in RepeatSampleRates :
          TrumpetGetNote(f, d, sr)

GuitarCallAgain ==
    /\ pc = "idle"
    /\ \E f \in RepeatFrequencies,
          d \in RepeatDurations \cup RepeatLongDurations,
          sr \in RepeatSampleRates :
          \E z \in StandardNormal(RingSize(sr, f)) : GuitarStart(f, d, sr, z)

NextRepeat ==
    \/ BeepCallAgain
    \/ TrumpetCallAgain
    \/ GuitarCallAgain
    \/ GuitarTick
    \/ GuitarReturn
    \/ NextCall

SpecRepeat == Init /\ [][NextRepeat]_vars

-----------------------------------------------------------------------------
(* What the claims read off a state. *)

Finished == pc \in {"returned", "packaged"}
InGuitar == instrument = "AcousticGuitar" /\ pc \in {"string", "returned", "packaged"}

\* The code's output[t] (t counted from 0).
Output(t) == samples[t + 1]

\* What tick t reads: the previous output (buffer[0] before the first tick),
\* and the ring cell under the cursor, which still holds its noise during the
\* first lap and afterwards the output written one lap earlier.
PrevOutput(t) == IF t = 0 THEN noise[1] ELSE Output(t - 1)
RingCell(t) == IF t < Len(noise) THEN noise[t + 1] ELSE Output(t - Len(noise))
LowPassAt(t) == RDiv(PrevOutput(t) + RingCell(t), 2)
EchoAt(t) == RDiv(Output(t - DelayCapacity) * Milli(999), Scale)

-----------------------------------------------------------------------------
(* The claims. *)

\* C1: every generator returns normally, for every valid request (duration 0
\* included), a signal of exactly `duration` samples.
C1_EveryCallReturnsDurationSamples ==
    /\ pc # "raised"
    /\ Finished => Len(samples) = duration

\* C2: AcousticGuitar.getNote raises no error, whatever the frequency and the
\* duration, a frequency above the sample rate included.
C2_GuitarNeverRaises ==
    instrument = "AcousticGuitar" => pc # "raised"

\* C3: the delay line never holds more than 200 samples; in a note shorter
\* than 200 ticks it never fills and no feedback is blended in; and every tick
\* t >= 200 blends exactly 0.999 * output[t - 200] into its low-pass value:
\* output[t] = (lowpass + delayed) / 2, while every tick t < 200 emits the
\* low-pass value itself.
C3_DelayLineFeedback ==
    InGuitar =>
        /\ Len(delayLine) <= DelayCapacity
        /\ Len(delayLine) = IF i < DelayCapacity THEN i ELSE DelayCapacity
        /\ duration < DelayCapacity =>
              Len(delayLine) < DelayCapacity /\ delayed = << >>
        /\ (delayed = << >>) <=> (i <= DelayCapacity)
        /\ i > 0 =>
              LET t == i - 1
              IN  IF t >= DelayCapacity
                  THEN /\ delayed = <<EchoAt(t)>>
                       /\ Output(t) = RDiv(LowPassAt(t) + EchoAt(t), 2)
                  ELSE Output(t) = LowPassAt(t)

\* A note that has run past the delay line's capacity, with the echo changing
\* what the low-pass filter alone would have emitted.
C3_Witness ==
    /\ InGuitar
    /\ pc = "returned"
    /\ i = DelayCapacity + MaxOver
    /\ Len(delayLine) = DelayCapacity
    /\ delayed # << >>
    /\ Output(i - 1) # LowPassAt(i - 1)

\* C4: Beep evaluates sample i at time i / sampleRate: the time axis has
\* `duration` points 1 / sampleRate apart, the end point duration / sampleRate
\* left out, so output[i] = sin(2 pi frequency i / sampleRate).
C4_TimeAxisHalfOpen ==
    (instrument = "Beep" /\ Finished) =>
        /\ Len(time) = duration
        /\ \A k \in 1..duration :
              /\ time[k][1] * sampleRate = (k - 1) * time[k][2]
              /\ samples[k] = Sin(frequency * (k - 1), sampleRate)

\* C5 as claimed: the ring buffer has round(sampleRate / frequency) cells, the
\* nearest integer: N is within one half of the quotient.
C5_RingSizeNearest ==
    (instrument = "AcousticGuitar" /\ pc # "idle") =>
        LET N == Len(buffer)
        IN  /\ 2 * N * frequency - 2 * sampleRate <= frequency
            /\ 2 * sampleRate - 2 * N * frequency <= frequency

\* C5 as amended: the ring buffer has int(sampleRate / frequency) cells, the
\* quotient truncated: N * frequency <= sampleRate < (N + 1) * frequency.
C5_RingSizeTruncated ==
    (instrument = "AcousticGuitar" /\ pc # "idle") =>
        LET N == Len(buffer)
        IN  /\ N * frequency <= sampleRate
            /\ sampleRate < (N + 1) * frequency

\* A running note whose quotient the two roundings send to different sizes.
C5_Witness ==
    /\ instrument = "AcousticGuitar"
    /\ pc = "string"
    /\ i > 0
    /\ Len(buffer) >= 1
    /\ 2 * sampleRate - 2 * Len(buffer) * frequency > frequency

\* C6: whenever duration < attack + decay + release, Trumpet.getNote returns
\* normally, skips the envelope and returns the filtered harmonic sum as it is.
C6_ShortNoteReturnsFiltered ==
    (instrument = "Trumpet" /\ pc # "idle"
        /\ SustainLength(duration, sampleRate) < 0) =>
        /\ pc # "raised"
        /\ adsr = << >>
        /\ samples = filtered

\* The plateau of the envelope, as indices of the 1-based model sequences.
Plateau ==
    (AttackLength(sampleRate) + DecayLength(sampleRate) + 1) ..
    (AttackLength(sampleRate) + DecayLength(sampleRate)
        + SustainLength(duration, sampleRate))

EnvelopeShape ==
    /\ Len(adsr) = duration
    /\ Len(samples) = duration
    /\ adsr[1] = 0
    /\ samples[1] = 0
    /\ \A j \in Plateau :
          /\ adsr[j] = Milli(80)
          /\ samples[j] = RDiv(filtered[j] * Milli(80), Scale)

\* C7 as claimed: whenever sustain >= 0, the envelope has `duration` samples,
\* starts at 0, so that output[0] is 0, and scales the plateau by 0.08.
C7_EnvelopeStartsAtZero ==
    (instrument = "Trumpet" /\ Finished
        /\ SustainLength(duration, sampleRate) >= 0) => EnvelopeShape

\* C7 as amended: the same, for the notes that have an attack segment
\* (int(0.075 * sampleRate) >= 1).
C7_EnvelopeWithAttack ==
    (instrument = "Trumpet" /\ Finished
        /\ SustainLength(duration, sampleRate) >= 0
        /\ AttackLength(sampleRate) >= 1) => EnvelopeShape

\* An enveloped note with an attack and a plateau on which the scaling shows.
C7_Witness ==
    /\ instrument = "Trumpet"
    /\ pc = "returned"
    /\ AttackLength(sampleRate) >= 1
    /\ SustainLength(duration, sampleRate) >= 2
    /\ \E j \in Plateau : samples[j] # 0 /\ samples[j] # filtered[j]

\* C8 as claimed: duplicateChannel returns one frame per sample, in order,
\* with left = right = sample / 2.
C8_FramesAreHalfSamples ==
    pc = "packaged" =>
        /\ Len(stereo) = Len(samples)
        /\ \A k \in 1..Len(samples) :
              stereo[k] = <<RDiv(samples[k], 2), RDiv(samples[k], 2)>>

Distance(x, y) == IF x >= y THEN x - y ELSE y - x

\* C8 as amended: one frame per sample, in order, with left = right = the
\* float32 nearest to sample / 2; the input signal is left as it was.
C8_FramesAreSingleHalfSamples ==
    /\ [](pc = "packaged" =>
            /\ Len(stereo) = Len(samples)
            /\ \A k \in 1..Len(samples) :
                  /\ stereo[k][1] = stereo[k][2]
                  /\ stereo[k][1] % SingleStep = 0
                  /\ 2 * Distance(stereo[k][1], RDiv(samples[k], 2))
                        <= SingleStep)
    /\ [][pc' = "packaged" => samples' = samples]_vars

\* A packaged signal on which the float32 conversion shows.
C8_Witness ==
    /\ pc = "packaged"
    /\ Len(stereo) >= 2
    /\ \E k \in 1..Len(samples) : stereo[k][1] # RDiv(samples[k], 2)
    /\ \E k \in 1..Len(samples) : stereo[k][1] # 0

SameRequest ==
    /\ previous # NoCall
    /\ previous.instrument = instrument
    /\ previous.frequency = frequency
    /\ previous.duration = duration
    /\ previous.sampleRate = sampleRate
    /\ instrument = "AcousticGuitar" => previous.noise = noise

C10_TickStep ==
    [][(pc = "string" /\ i' = i + 1) =>
          LET N == Len(buffer)
              c == bufferCounter
              low == RDiv(last + buffer[c + 1], 2)
              current == samples'[i + 1]
          IN  /\ 0 <= c /\ c < N /\ c = i % N
              /\ last = IF i = 0 THEN buffer[1] ELSE samples[i]
              /\ Len(delayLine) < DelayCapacity => current = low
              /\ samples' = Append(samples, current)
              /\ delayLine'[Len(delayLine')] = current
              /\ buffer' = [buffer EXCEPT ![c + 1] = current]
              /\ last' = current
              /\ 0 <= bufferCounter' /\ bufferCounter' < N
              /\ bufferCounter' = i' % N]_vars

\* A tick in a later lap of a ring of several cells, the cursor back inside.
C10_Witness ==
    /\ pc = "string"
    /\ Len(buffer) >= 2
    /\ i > Len(buffer)
    /\ bufferCounter = i % Len(buffer)
    /\ bufferCounter > 0
    /\ buffer[bufferCounter] = samples[i]
    /\ last = samples[i]
=============================================================================
